---- MODULE Spec2Model ----
(***************************************************************************)
(* A model of paris.py: a ring of 180 RGBW LEDs around a rectangular       *)
(* frame, two byte buffers (leds_0 shown, leds_1 faded to), a periodic     *)
(* timer whose callback redraws the solar scene, and two manual modes.     *)
(*                                                                         *)
(* Floating point is modelled by exact rationals: a fraction t is a pair   *)
(* (tn, td), lengths are integers in units of 0.001 cm.  The results of    *)
(* the trigonometry (the point where a ray leaves the frame, the solar     *)
(* azimuth and elevation) are inputs drawn from bounded sets.              *)
(***************************************************************************)
EXTENDS Integers, Sequences, FiniteSets, TLC

VARIABLES
    leds_0,     \* current leds: sequence of bytes, byte k is leds_0[k + 1]
    leds_1,     \* leds to be faded to
    timer,      \* TRUE while the periodic timer is armed
    mainpc,     \* position of the main (REPL) thread
    mi,         \* loop counter of the running manual mode
    mode,       \* the manual mode being executed, and how it began / ended
    ap,         \* activation of apply() on the main thread
    cbpc,       \* position of the timer callback, "none" when not running
    cbap,       \* activation of apply() inside the callback
    scene,      \* what the last scene composer did with its marker(s)
    hist,       \* buffers as they were before the last operation / iteration
    changed,    \* the set returned by the last set_area
    ops,        \* number of buffer operations done (buffer specification)
    frame,      \* frame mapper: the kernel's report, cm and the index
    jul         \* calendar date, true day number and the computed jd

vars == <<leds_0, leds_1, timer, mainpc, mi, mode, ap, cbpc, cbap, scene,
          hist, changed, ops, frame, jul>>

\* Python's None is the empty sequence, any other value v is <<v>>
None == <<>>
Some(v) == <<v>>
Val(o) == o[1]

(***************************************************************************)
(* Module constants (paris.py lines 9-36).                                 *)
(***************************************************************************)
n == 180
cols == 54
rows == 36

\* width and height of the frame, in 0.001 cm
width == 89500
height == 60500

south_east == 0
south_west == cols
north_west == cols + rows
north_east == 2 * cols + rows

cardinals ==
    [north |-> <<(north_east + north_west) \div 2, cols, <<north_west, north_east>> >>,
     east  |-> <<(north_east + n) \div 2, rows, <<north_east, n>> >>,
     south |-> <<(south_west + south_east) \div 2, cols, <<south_east, south_west>> >>,
     west  |-> <<(south_west + north_west) \div 2, rows, <<south_west, north_west>> >>]

off == <<0, 0, 0, 0>>
ambient == <<0, 0, 0, 5>>
river == <<10, 0, 15, 0>>

bytearray(len) == [k \in 1..len |-> 0]

(***************************************************************************)
(* Arithmetic helpers.                                                     *)
(***************************************************************************)
Min(a, b) == IF a < b THEN a ELSE b
Max(a, b) == IF a > b THEN a ELSE b
Abs(a) == IF a < 0 THEN -a ELSE a

\* int(p / q) for q > 0: truncation toward zero
int(p, q) == IF p >= 0 THEN p \div q ELSE -((-p) \div q)

\* round(p / q) for q > 0: to nearest, ties to even
round(p, q) ==
    LET f == p \div q
        r == p - f * q
    IN  IF 2 * r < q THEN f
        ELSE IF 2 * r > q THEN f + 1
        ELSE IF f % 2 = 0 THEN f ELSE f + 1

clamp_not(v, a, b) == v

clamp(v, a, b) == Max(Min(v, b), a)

\* a + clamp(t, 0, 1) * (b - a) with t = tn / td; the result is scaled by td
interpolate(a, b, tn, td) == a * td + clamp(tn, 0, td) * (b - a)

interpolate_rgbw(a, b, tn, td) ==
    [i \in 1..4 |-> int(interpolate(a[i], b[i], tn, td), td)]

(***************************************************************************)
(* Julian day (calc_solar_position, line 111), with Python's floor //.     *)
(***************************************************************************)
JulianDay(year, month, day) ==
    (1461 * (year + 4800 + (month - 14) \div 12)) \div 4
    + (367 * (month - 2 - 12 * ((month - 14) \div 12))) \div 12
    - (3 * ((year + 4900 + (month - 14) \div 12) \div 100)) \div 4
    + day - 32075

\* number of days since Jan 1st 2000 (line 114)
J2000 == 2451545

(***************************************************************************)
(* Pixel buffers: slices, uni, set_area, apply (lines 246-283).            *)
(***************************************************************************)
\* buf[a:b] = c on a bytearray: negative bounds count from the end, and a
\* slice whose length differs from Len(c) changes the length of buf
SliceAssign(buf, a, b, c) ==
    LET len == Len(buf)
        norm(v) == IF v < 0 THEN Max(v + len, 0) ELSE Min(v, len)
        lo == norm(a)
        hi == Max(norm(b), lo)
    IN  SubSeq(buf, 1, lo) \o c \o SubSeq(buf, hi + 1, len)

\* the colour of pixel p: bytes 4p .. 4p+3
Pixel(buf, p) == <<buf[4 * p + 1], buf[4 * p + 2], buf[4 * p + 3], buf[4 * p + 4]>>

\* for i in range(n): leds_1[i * 4:i * 4 + 4] = bytearray(color)
uni(l1, color) ==
    [k \in 1..Len(l1) |-> IF k <= n * 4 THEN color[((k - 1) % 4) + 1] ELSE l1[k]]

\* the colour set_area gives position i of its window (lines 274-276)
area_color(i, center, size, primary, secondary) ==
    LET d2 == IF size % 2 # 0 THEN 0 ELSE 1      \* 2 * d
    IN  interpolate_rgbw(primary, secondary, Abs(2 * (center - i) - d2), 2 * size)

\* the loop of set_area (lines 273-282) over i in start..end-1, writing into
\* buf: pixel p gets the colour of the last i of the window with i % n = p
set_area_loop(buf, start, end, center, size, primary, secondary) ==
    [k \in 1..Len(buf) |->
        LET p == (k - 1) \div 4
            first == start + ((p - start) % n)
            last == first + n * ((end - 1 - first) \div n)
        IN  IF p < n /\ first < end
            THEN area_color(last, center, size, primary, secondary)[((k - 1) % 4) + 1]
            ELSE buf[k]]

\* bufs is [leds_0, leds_1]; the result carries the buffers and the returned set
set_area(bufs, center, size, primary, secondary, direct) ==
    LET half == size \div 2
        start == center - half
        end == center + half + (size % 2)
    IN  [leds_0 |-> IF direct
                    THEN set_area_loop(bufs.leds_0, start, end, center, size,
                                       primary, secondary)
                    ELSE bufs.leds_0,
         leds_1 |-> IF direct
                    THEN bufs.leds_1
                    ELSE set_area_loop(bufs.leds_1, start, end, center, size,
                                       primary, secondary),
         changed_leds |-> {(i % n) * 4 : i \in start..(end - 1)}]

\* "if pixels:" is false for None and for the empty set
Truthy(pixels) == pixels # None /\ Val(pixels) # {}

\* iteration i of apply's loop with t = i / steps
ApplyIterationLate(l0, l1, i, steps, pixels) ==
    LET touched == IF Truthy(pixels)
                   THEN UNION {(j + 1)..(j + 4) : j \in Val(pixels)}
                   ELSE 1..(n * 4)
    IN  [k \in 1..Len(l0) |->
            IF k \in touched
            THEN int(interpolate(l0[k], l1[k], i, steps), steps)
            ELSE l0[k]]

\* iteration i of apply's loop (lines 248-255): the new leds_0
ApplyIteration(l0, l1, i, steps, pixels) ==
    LET touched == IF Truthy(pixels)
                   THEN UNION {(j + 1)..(j + 4) : j \in Val(pixels)}
                   ELSE 1..(n * 4)
    IN  [k \in 1..Len(l0) |->
            IF k \in touched
            THEN int(interpolate(l0[k], l1[k], i + 1, steps), steps)
            ELSE l0[k]]

(***************************************************************************)
(* Geometry kernel and frame mapper.                                       *)
(*                                                                         *)
(* get_border_intersections returns None or (side, (x, y)); the point      *)
(* passed the test of line 211, -w2 - 1e-3 < x < w2 + 1e-3 and the same    *)
(* for y.  x and y are integers in 0.001 cm, so the strict bounds admit    *)
(* exactly -w2..w2 and -h2..h2.  Which of these results an angle gives is  *)
(* decided by floating-point trigonometry and is left open here.           *)
(***************************************************************************)
Sides == {"north", "east", "south", "west"}

w2 == width \div 2
h2 == height \div 2

\* distance between two neighbouring sample coordinates, in 0.001 cm
GridStep == 2500

GridPoints(lim) ==
    {-lim, lim} \cup {k * GridStep : k \in -(lim \div GridStep)..(lim \div GridStep)}

get_border_intersections ==
    {None} \cup {Some(r) : r \in [side : Sides, x : GridPoints(w2), y : GridPoints(h2)]}

\* unwind to centimeters on the stripe (lines 172-180), in 0.001 cm
unwind(side, x, y) ==
    CASE side = "south" -> -x + width \div 2
      [] side = "west"  -> width + y + height \div 2
      [] side = "north" -> width + height + x + width \div 2
      [] side = "east"  -> 2 * width + height - y + height \div 2

led_at_no_offset(cm) == round(6 * cm, 10000)

\* int(round(cm * 0.6 - 1)) with cm in 0.001 cm (line 183)
led_at(cm) == round(6 * cm - 10000, 10000)

\* lines 168-186: result is the report of get_border_intersections
intersect_angle_frame(result) ==
    IF result # None
    THEN Some(clamp(led_at(unwind(Val(result).side, Val(result).x, Val(result).y)),
                    0, n - 1))
    ELSE None

(***************************************************************************)
(* Scenes (lines 321-340).                                                 *)
(***************************************************************************)
sun(l1, i) ==
    set_area([leds_0 |-> <<>>, leds_1 |-> l1], i, 7,
             <<127, 255, 0, 0>>, <<50, 255, 0, 0>>, FALSE).leds_1

moon(l1, i) ==
    set_area([leds_0 |-> <<>>, leds_1 |-> l1], i, 7,
             <<0, 0, 200, 0>>, <<0, 0, 0, 10>>, FALSE).leds_1

paris_without_uni(l1) ==
    LET a == set_area([leds_0 |-> <<>>, leds_1 |-> l1], 1, 5, river, ambient, FALSE)
        b == set_area(a, 65, 5, river, ambient, FALSE)
        c == set_area(b, 142, 3, river, ambient, FALSE)
    IN  c.leds_1

paris(l1) ==
    LET u == uni(l1, ambient)
        a == set_area([leds_0 |-> <<>>, leds_1 |-> u], 1, 5, river, ambient, FALSE)
        b == set_area(a, 65, 5, river, ambient, FALSE)
        c == set_area(b, 142, 3, river, ambient, FALSE)
    IN  c.leds_1

\* solar (lines 336-340): result is what get_border_intersections reports for
\* the azimuth, elev_positive whether elev > 0
solar(l1, result, elev_positive) ==
    LET i == intersect_angle_frame(result)
    IN  IF i # None
        THEN (IF elev_positive THEN sun(l1, Val(i)) ELSE moon(l1, Val(i)))
        ELSE l1

(***************************************************************************)
(* Start-up animation (lines 289-316).                                     *)
(***************************************************************************)
\* lines 304-307: iteration i of the first loop of ramp_up
ramp_loop_1(buf, i, center, d, ramp_color_1) ==
    LET i1 == (center - d - (i % n)) * 4
        i2 == (center + (i % n)) * 4
        b1 == SliceAssign(buf, i1, i1 + 4, ramp_color_1)
    IN  SliceAssign(b1, i2, i2 + 4, ramp_color_1)

\* lines 311-312: iteration i of the second loop of ramp_up
ramp_loop_2(buf, i, ramp_color_2) ==
    set_area([leds_0 |-> buf, leds_1 |-> <<>>], cardinals.north[1], cols,
             interpolate_rgbw(off, ramp_color_2, i + 1, 16), off, TRUE).leds_0

\* clock (lines 366-378): hands are the reports of get_border_intersections
\* for the hour, minute and second angles.  None * 4 raises TypeError before
\* anything is written.
clock(l0, hands) ==
    LET i_h == intersect_angle_frame(hands[1])
        i_m == intersect_angle_frame(hands[2])
        i_s == intersect_angle_frame(hands[3])
    IN  IF i_h = None \/ i_m = None \/ i_s = None
        THEN [raised |-> TRUE, leds_0 |-> l0, drawn |-> {}]
        ELSE LET a == SliceAssign(bytearray(n * 4), Val(i_s) * 4, Val(i_s) * 4 + 4, ambient)
                 b == SliceAssign(a, Val(i_m) * 4, Val(i_m) * 4 + 4, river)
                 c == SliceAssign(b, Val(i_h) * 4, Val(i_h) * 4 + 4, <<0, 0, 0, 128>>)
             IN  [raised |-> FALSE, leds_0 |-> c,
                  drawn |-> {Val(i_s) * 4, Val(i_m) * 4, Val(i_h) * 4}]

timer_deinit_forgotten(t) == t

\* timer.deinit(): the timer is no longer armed
timer_deinit(t) == FALSE

\* timer.init(period=60000, mode=PERIODIC, callback=paris_solaire)
timer_init(t) == TRUE

(***************************************************************************)
(* Values of the variables a specification does not use.                   *)
(***************************************************************************)
NoFrame == [result |-> None, state |-> "unused", cm |-> None, i |-> None]
NoJul == [date |-> <<0, 0, 0>>, dayNo |-> 0, jd |-> None]
NoApply == [active |-> FALSE, steps |-> 0, i |-> 0, pixels |-> None]
NoScene == [who |-> "none", gotNone |-> FALSE, raised |-> FALSE, drawn |-> {}]
NoMode == [name |-> "none", beganArmed |-> FALSE, ended |-> "no"]
NoHist == [before_0 |-> <<>>, before_1 |-> <<>>, start |-> <<>>, prev |-> <<>>]

(***************************************************************************)
(* The program: run(), then the REPL from which time() and solar_demo()    *)
(* are called, and the timer callback paris_solaire, which interrupts the  *)
(* main thread and runs to completion before the main thread continues.    *)
(***************************************************************************)
\* the reports of the geometry kernel the program is run with
Reports ==
    {None,
     Some([side |-> "south", x |-> 0, y |-> -h2]),
     Some([side |-> "north", x |-> w2, y |-> h2])}

\* what calc_solar_position and the kernel give for the times the program is
\* run at: the sun in the south, the sun below the horizon in the north-east,
\* and an azimuth for which the kernel reports nothing
SolarPositions ==
    {[result |-> Some([side |-> "south", x |-> 0, y |-> -h2]), elev_positive |-> TRUE],
     [result |-> Some([side |-> "north", x |-> w2, y |-> h2]), elev_positive |-> FALSE],
     [result |-> None, elev_positive |-> FALSE]}

TimeIterations == 20
DemoIterations == 144
RampSize == cols + 2 * rows
DefaultSteps == 10
DemoSteps == 3

ApplyCall(steps, pixels) ==
    [active |-> TRUE, steps |-> steps, i |-> 0, pixels |-> pixels]

SceneOfSolar(result) ==
    [who |-> "solar", gotNone |-> result = None, raised |-> FALSE,
     drawn |-> IF intersect_angle_frame(result) = None THEN {}
               ELSE set_area([leds_0 |-> <<>>, leds_1 |-> bytearray(n * 4)],
                             Val(intersect_angle_frame(result)), 7, off, off,
                             FALSE).changed_leds]

Init ==
    /\ leds_0 = bytearray(n * 4)
    /\ leds_1 = bytearray(n * 4)
    /\ timer = FALSE
    /\ mainpc = "boot"
    /\ mi = 0
    /\ mode = NoMode
    /\ ap = NoApply
    /\ cbpc = "none"
    /\ cbap = NoApply
    /\ scene = NoScene
    /\ hist = NoHist
    /\ changed = None
    /\ ops = 0
    /\ frame = NoFrame
    /\ jul = NoJul

Unused == <<hist, changed, ops, frame, jul>>

\* run, lines 394-395: init(); paris()
RunParis ==
    /\ mainpc = "boot"
    /\ leds_1' = paris(leds_1)
    /\ mainpc' = "ramp_up"
    /\ UNCHANGED <<leds_0, timer, mi, mode, ap, cbpc, cbap, scene, Unused>>

\* ramp_up, lines 290-302
RampUpStart ==
    /\ mainpc = "ramp_up"
    /\ leds_0' = set_area([leds_0 |-> bytearray(n * 4), leds_1 |-> <<>>],
                          cardinals.south[1], cols \div 3, <<0, 0, 0, 20>>, off,
                          TRUE).leds_0
    /\ mainpc' = "ramp_loop_1"
    /\ mi' = 0
    /\ UNCHANGED <<leds_1, timer, mode, ap, cbpc, cbap, scene, Unused>>

\* ramp_up, lines 303-309: one iteration, or the end of the loop
RampLoop1 ==
    /\ mainpc = "ramp_loop_1"
    /\ IF mi < RampSize \div 2
       THEN /\ leds_0' = ramp_loop_1(leds_0, mi, cardinals.south[1],
                                     (RampSize + 1) % 2, <<0, 0, 0, 5>>)
            /\ mi' = mi + 1
            /\ UNCHANGED mainpc
       ELSE /\ mainpc' = "ramp_loop_2"
            /\ mi' = 0
            /\ UNCHANGED leds_0
    /\ UNCHANGED <<leds_1, timer, mode, ap, cbpc, cbap, scene, Unused>>

\* ramp_up, lines 310-316: one iteration, or the end of the loop and apply()
RampLoop2 ==
    /\ mainpc = "ramp_loop_2"
    /\ IF mi < 16
       THEN /\ leds_0' = ramp_loop_2(leds_0, mi, <<0, 0, 0, 20>>)
            /\ mi' = mi + 1
            /\ UNCHANGED <<mainpc, ap>>
       ELSE /\ mainpc' = "ramp_apply"
            /\ ap' = ApplyCall(DefaultSteps, None)
            /\ UNCHANGED <<leds_0, mi>>
    /\ UNCHANGED <<leds_1, timer, mode, cbpc, cbap, scene, Unused>>

\* one iteration of apply's loop on the main thread (lines 248-257)
MainApplyStep ==
    /\ cbpc = "none"
    /\ ap.active /\ ap.i < ap.steps
    /\ leds_0' = ApplyIteration(leds_0, leds_1, ap.i, ap.steps, ap.pixels)
    /\ ap' = [ap EXCEPT !.i = @ + 1]
    /\ UNCHANGED <<leds_1, timer, mainpc, mi, mode, cbpc, cbap, scene, Unused>>

\* where the caller of apply continues
AfterApply(pc) ==
    CASE pc = "ramp_apply" -> "paris_solaire"
      [] pc = "run_apply" -> "run_timer"
      [] pc = "time_apply" -> "time_init"
      [] pc = "demo_apply_first" -> "demo_loop"
      [] pc = "demo_apply_iter" -> "demo_loop"
      [] pc = "demo_apply_last" -> "demo_init"

\* apply returns on the main thread
MainApplyReturn ==
    /\ cbpc = "none"
    /\ ap.active /\ ap.i >= ap.steps
    /\ ap' = NoApply
    /\ mainpc' = AfterApply(mainpc)
    /\ mi' = IF mainpc = "demo_apply_iter" THEN mi + 1 ELSE mi
    /\ UNCHANGED <<leds_0, leds_1, timer, mode, cbpc, cbap, scene, Unused>>

\* run, line 397: paris_solaire() up to the call of apply
RunParisSolaire ==
    /\ mainpc = "paris_solaire"
    /\ \E pos \in SolarPositions :
          /\ leds_1' = solar(paris(leds_1), pos.result, pos.elev_positive)
          /\ scene' = SceneOfSolar(pos.result)
    /\ ap' = ApplyCall(DefaultSteps, None)
    /\ mainpc' = "run_apply"
    /\ UNCHANGED <<leds_0, timer, mi, mode, cbpc, cbap, Unused>>

\* run, line 398
RunTimerInit ==
    /\ mainpc = "run_timer"
    /\ timer' = timer_init(timer)
    /\ mainpc' = "idle"
    /\ UNCHANGED <<leds_0, leds_1, mi, mode, ap, cbpc, cbap, scene, Unused>>

\* time() is called from the REPL
CallTime ==
    /\ cbpc = "none"
    /\ mainpc = "idle"
    /\ mainpc' = "time"
    /\ mode' = [name |-> "time", beganArmed |-> timer, ended |-> "no"]
    /\ UNCHANGED <<leds_0, leds_1, timer, mi, ap, cbpc, cbap, scene, Unused>>

\* time, line 382
TimeDeinit ==
    /\ cbpc = "none"
    /\ mainpc = "time"
    /\ timer' = timer_deinit(timer)
    /\ mainpc' = "time_clock"
    /\ mi' = 0
    /\ UNCHANGED <<leds_0, leds_1, mode, ap, cbpc, cbap, scene, Unused>>

\* time, line 384: clock(); a TypeError leaves time() at once
TimeClock ==
    /\ cbpc = "none"
    /\ mainpc = "time_clock"
    /\ \E hands \in Reports \X Reports \X Reports :
          LET c == clock(leds_0, hands)
          IN  /\ scene' = [who |-> "clock",
                           gotNone |-> \E k \in 1..3 : hands[k] = None,
                           raised |-> c.raised, drawn |-> c.drawn]
              /\ leds_0' = c.leds_0
              /\ IF c.raised
                 THEN /\ mainpc' = "idle"
                      /\ mode' = [mode EXCEPT !.ended = "raised"]
                 ELSE /\ mainpc' = "time_sleep"
                      /\ UNCHANGED mode
    /\ UNCHANGED <<leds_1, timer, mi, ap, cbpc, cbap, Unused>>

\* time, lines 383-386: utime.sleep(1), then the next iteration or apply()
TimeSleep ==
    /\ cbpc = "none"
    /\ mainpc = "time_sleep"
    /\ mi' = mi + 1
    /\ IF mi + 1 < TimeIterations
       THEN /\ mainpc' = "time_clock"
            /\ UNCHANGED ap
       ELSE /\ mainpc' = "time_apply"
            /\ ap' = ApplyCall(DefaultSteps, None)
    /\ UNCHANGED <<leds_0, leds_1, timer, mode, cbpc, cbap, scene, Unused>>

\* time, line 387
TimeTimerInit ==
    /\ cbpc = "none"
    /\ mainpc = "time_init"
    /\ timer' = timer_init(timer)
    /\ mainpc' = "idle"
    /\ mode' = [mode EXCEPT !.ended = "returned"]
    /\ UNCHANGED <<leds_0, leds_1, mi, ap, cbpc, cbap, scene, Unused>>

\* solar_demo() is called from the REPL
CallSolarDemo ==
    /\ cbpc = "none"
    /\ mainpc = "idle"
    /\ mainpc' = "solar_demo"
    /\ mode' = [name |-> "solar_demo", beganArmed |-> timer, ended |-> "no"]
    /\ UNCHANGED <<leds_0, leds_1, timer, mi, ap, cbpc, cbap, scene, Unused>>

\* solar_demo, line 350
DemoDeinit ==
    /\ cbpc = "none"
    /\ mainpc = "solar_demo"
    /\ timer' = timer_deinit(timer)
    /\ mainpc' = "demo_paris"
    /\ UNCHANGED <<leds_0, leds_1, mi, mode, ap, cbpc, cbap, scene, Unused>>

\* solar_demo, lines 351-352: paris(), and apply() is called
DemoParis ==
    /\ cbpc = "none"
    /\ mainpc = "demo_paris"
    /\ leds_1' = paris(leds_1)
    /\ ap' = ApplyCall(DefaultSteps, None)
    /\ mainpc' = "demo_apply_first"
    /\ mi' = 0
    /\ UNCHANGED <<leds_0, timer, mode, cbpc, cbap, scene, Unused>>

\* solar_demo, lines 353-357: iteration mi of the two nested loops
DemoIteration ==
    /\ cbpc = "none"
    /\ mainpc = "demo_loop" /\ mi < DemoIterations
    /\ \E pos \in SolarPositions :
          /\ leds_1' = solar(paris(leds_1), pos.result, pos.elev_positive)
          /\ scene' = SceneOfSolar(pos.result)
    /\ ap' = ApplyCall(DemoSteps, None)
    /\ mainpc' = "demo_apply_iter"
    /\ UNCHANGED <<leds_0, timer, mi, mode, cbpc, cbap, Unused>>

\* solar_demo, lines 358-359
DemoLast ==
    /\ cbpc = "none"
    /\ mainpc = "demo_loop" /\ mi >= DemoIterations
    /\ leds_1' = paris(leds_1)
    /\ ap' = ApplyCall(DefaultSteps, None)
    /\ mainpc' = "demo_apply_last"
    /\ UNCHANGED <<leds_0, timer, mi, mode, cbpc, cbap, scene, Unused>>

\* solar_demo, line 360
DemoTimerInit ==
    /\ cbpc = "none"
    /\ mainpc = "demo_init"
    /\ timer' = timer_init(timer)
    /\ mainpc' = "idle"
    /\ mode' = [mode EXCEPT !.ended = "returned"]
    /\ UNCHANGED <<leds_0, leds_1, mi, ap, cbpc, cbap, scene, Unused>>

\* the armed timer fires: paris_solaire (lines 343-346) up to the call of apply
TimerFires ==
    /\ timer
    /\ cbpc = "none"
    /\ \E pos \in SolarPositions :
          /\ leds_1' = solar(paris(leds_1), pos.result, pos.elev_positive)
          /\ scene' = SceneOfSolar(pos.result)
    /\ cbap' = ApplyCall(DefaultSteps, None)
    /\ cbpc' = "apply"
    /\ UNCHANGED <<leds_0, timer, mainpc, mi, mode, ap, Unused>>

\* one iteration of apply's loop inside the callback
CallbackApplyStep ==
    /\ cbpc = "apply"
    /\ cbap.i < cbap.steps
    /\ leds_0' = ApplyIteration(leds_0, leds_1, cbap.i, cbap.steps, cbap.pixels)
    /\ cbap' = [cbap EXCEPT !.i = @ + 1]
    /\ UNCHANGED <<leds_1, timer, mainpc, mi, mode, ap, cbpc, scene, Unused>>

\* the callback returns and the main thread continues
CallbackReturn ==
    /\ cbpc = "apply"
    /\ cbap.i >= cbap.steps
    /\ cbpc' = "none"
    /\ cbap' = NoApply
    /\ UNCHANGED <<leds_0, leds_1, timer, mainpc, mi, mode, ap, scene, Unused>>

Next ==
    \/ RunParis \/ RampUpStart \/ RampLoop1 \/ RampLoop2
    \/ MainApplyStep \/ MainApplyReturn
    \/ RunParisSolaire \/ RunTimerInit
    \/ CallTime \/ TimeDeinit \/ TimeClock \/ TimeSleep \/ TimeTimerInit
    \/ CallSolarDemo \/ DemoDeinit \/ DemoParis \/ DemoIteration \/ DemoLast
    \/ DemoTimerInit
    \/ TimerFires \/ CallbackApplyStep \/ CallbackReturn

Spec == Init /\ [][Next]_vars

\* the bytes of the pixels a caller of apply lists: all of them for None
Affected(pixels) ==
    IF pixels = None THEN 1..(n * 4)
    ELSE UNION {(j + 1)..(j + 4) : j \in Val(pixels)}

ManualWindow ==
    \/ mainpc \in {"time_sleep", "time_apply"}
    \/ mainpc = "time_clock" /\ mi > 0
    \/ mainpc \in {"demo_apply_first", "demo_loop", "demo_apply_iter", "demo_apply_last"}

\* C1: while time() or solar_demo() is between its first and its last
\* mutation of the buffers, the timer is not armed and paris_solaire is not
\* running.
C1_NoRefreshDuringManualMode ==
    ManualWindow => ~timer /\ cbpc = "none"

\* a manual mode that began with the timer armed is in the middle of a fade
C1_Witness ==
    /\ ManualWindow /\ mode.beganArmed
    /\ mainpc = "demo_apply_iter" /\ ap.i = 1 /\ leds_0 # leds_1

\* C2: an execution of time() or solar_demo() that began with the timer armed
\* has the timer armed again when it ends, on every path through the mode.
C2_ManualModeEndsArmed ==
    mode.beganArmed /\ mode.ended # "no" => timer

\* C7: when intersect_angle_frame reports None for a marker angle, the scene
\* composer (solar, clock) draws no marker and completes without raising.
C7_NoneMarkerSkipped ==
    scene.gotNone => ~scene.raised /\ scene.drawn = {}

(***************************************************************************)
(* The pixel buffers on their own: paris, set_area and apply called in any *)
(* order on buffers of arbitrary contents.                                 *)
(***************************************************************************)
MaxOps == 2
MaxSteps == 3
MaxAreaSize == 2
MaxShift == 1

ByteSamples == <<0, 1, 5, 10, 15, 50, 127, 128, 200, 254, 255>>

\* buffers in which every pair of sample bytes meets at some offset
Pattern0(shift) ==
    [k \in 1..(n * 4) |-> ByteSamples[((k - 1 + shift) % Len(ByteSamples)) + 1]]

Pattern1(shift) ==
    [k \in 1..(n * 4) |->
        ByteSamples[((((k - 1) \div Len(ByteSamples)) + shift) % Len(ByteSamples)) + 1]]

InitBuffer ==
    /\ \E s0 \in 0..MaxShift, s1 \in 0..MaxShift :
          /\ leds_0 = Pattern0(s0)
          /\ leds_1 = Pattern1(s1)
    /\ timer = FALSE
    /\ mainpc = "buffers"
    /\ mi = 0
    /\ mode = NoMode
    /\ ap = NoApply
    /\ cbpc = "none"
    /\ cbap = NoApply
    /\ scene = NoScene
    /\ hist = NoHist
    /\ changed = None
    /\ ops = 0
    /\ frame = NoFrame
    /\ jul = NoJul

BufferOthers == <<timer, mi, mode, cbpc, cbap, scene, frame, jul>>

BufferIdle ==
    mainpc \in {"buffers", "paris_returned", "set_area_returned", "apply_returned"}

\* paris() (lines 329-333)
BufParis ==
    /\ BufferIdle /\ ops < MaxOps
    /\ hist' = [hist EXCEPT !.before_0 = leds_0, !.before_1 = leds_1]
    /\ leds_1' = paris(leds_1)
    /\ mainpc' = "paris_returned"
    /\ ops' = ops + 1
    /\ UNCHANGED <<leds_0, ap, changed, BufferOthers>>

\* set_area(center, size, river, ambient, direct) (lines 268-283)
BufSetArea ==
    /\ BufferIdle /\ ops < MaxOps
    /\ \E size \in 0..MaxAreaSize, direct \in BOOLEAN :
          LET r == set_area([leds_0 |-> leds_0, leds_1 |-> leds_1], n - 1, size,
                            river, ambient, direct)
          IN  /\ leds_0' = r.leds_0
              /\ leds_1' = r.leds_1
              /\ changed' = Some(r.changed_leds)
    /\ hist' = [hist EXCEPT !.before_0 = leds_0, !.before_1 = leds_1]
    /\ mainpc' = "set_area_returned"
    /\ ops' = ops + 1
    /\ UNCHANGED <<ap, BufferOthers>>

\* apply(steps, sleep, pixels) is called, for all pixels or for the set that
\* the last set_area returned
BufApplyCall ==
    /\ BufferIdle /\ ops < MaxOps
    /\ \E steps \in 1..MaxSteps, pixels \in {None, changed} :
          ap' = ApplyCall(steps, pixels)
    /\ hist' = [before_0 |-> leds_0, before_1 |-> leds_1,
                start |-> leds_0, prev |-> leds_0]
    /\ mainpc' = "apply"
    /\ ops' = ops + 1
    /\ UNCHANGED <<leds_0, leds_1, changed, BufferOthers>>

\* one iteration of apply's loop (lines 248-257)
BufApplyStep ==
    /\ mainpc = "apply"
    /\ ap.i < ap.steps
    /\ hist' = [hist EXCEPT !.prev = leds_0]
    /\ leds_0' = ApplyIteration(leds_0, leds_1, ap.i, ap.steps, ap.pixels)
    /\ ap' = [ap EXCEPT !.i = @ + 1]
    /\ UNCHANGED <<leds_1, mainpc, changed, ops, BufferOthers>>

\* apply returns
BufApplyReturn ==
    /\ mainpc = "apply"
    /\ ap.i >= ap.steps
    /\ ap' = [ap EXCEPT !.active = FALSE]
    /\ mainpc' = "apply_returned"
    /\ UNCHANGED <<leds_0, leds_1, hist, changed, ops, BufferOthers>>

NextBuffer ==
    BufParis \/ BufSetArea \/ BufApplyCall \/ BufApplyStep \/ BufApplyReturn

SpecBuffer == InitBuffer /\ [][NextBuffer]_vars

AfterLastIteration ==
    mainpc \in {"apply", "apply_returned"} /\ ap.steps >= 1 /\ ap.i = ap.steps

\* C3: after the last iteration of apply(steps), steps >= 1 (so after the only
\* iteration of apply(steps=1)), current equals target on every affected pixel.
C3_LastIterationReachesTarget ==
    AfterLastIteration => \A k \in Affected(ap.pixels) : leds_0[k] = leds_1[k]

\* apply(steps=1) on all pixels has made differing buffers equal
C3_Witness ==
    /\ AfterLastIteration /\ ap.steps = 1 /\ ap.pixels = None
    /\ hist.start # leds_1 /\ leds_0 = leds_1

\* C4 as stated: after iteration i every affected channel is the interpolation
\* between its value at the call of apply and its target at (i+1)/steps.
C4_LinearRampFromStart ==
    mainpc = "apply" /\ ap.i >= 1 =>
        \A k \in Affected(ap.pixels) :
            leds_0[k] = int(interpolate(hist.start[k], leds_1[k], ap.i, ap.steps),
                            ap.steps)

\* C4 amended: after iteration i every affected channel is the interpolation
\* between its value after iteration i-1 (its value at the call for i = 0)
\* and its target at (i+1)/steps, truncated; it lies between the two.
C4_RampFromPreviousFrame ==
    mainpc = "apply" /\ ap.i >= 1 =>
        \A k \in Affected(ap.pixels) :
            /\ leds_0[k] = int(interpolate(hist.prev[k], leds_1[k], ap.i, ap.steps),
                               ap.steps)
            /\ Min(hist.prev[k], leds_1[k]) <= leds_0[k]
            /\ leds_0[k] <= Max(hist.prev[k], leds_1[k])

\* a second iteration whose frame is not on the line from start to target
C4_Witness ==
    /\ mainpc = "apply" /\ ap.i = 2 /\ ap.steps = 3
    /\ \E k \in Affected(ap.pixels) :
          leds_0[k] # int(interpolate(hist.start[k], leds_1[k], ap.i, ap.steps),
                          ap.steps)

RiverWindows == {179, 0, 1, 2, 3} \cup 63..67 \cup {141, 142, 143}

\* C8: after paris() every target pixel outside the three river windows is
\* ambient, the centre of each window is river, and current is unchanged.
C8_ParisScene ==
    mainpc = "paris_returned" =>
        /\ \A p \in (0..(n - 1)) \ RiverWindows : Pixel(leds_1, p) = ambient
        /\ \A p \in {1, 65, 142} : Pixel(leds_1, p) = river
        /\ leds_0 = hist.before_0

\* paris() ran on a target that was not ambient outside the windows
C8_Witness ==
    /\ mainpc = "paris_returned"
    /\ \E p \in (0..(n - 1)) \ RiverWindows : Pixel(hist.before_1, p) # ambient
    /\ leds_0 # bytearray(n * 4)

\* C10: apply with a set of pixels changes only the bytes of the listed
\* pixels of current, and no byte of target; for the empty set, nothing.
C10_OnlyListedPixelsChange ==
    mainpc \in {"apply", "apply_returned"} /\ ap.pixels # None =>
        /\ \A k \in (1..Len(leds_0)) \ Affected(ap.pixels) : leds_0[k] = hist.start[k]
        /\ leds_1 = hist.before_1

(***************************************************************************)
(* The frame mapper on its own: every report of the kernel, one call each. *)
(***************************************************************************)
InitFrame ==
    /\ frame \in [result : get_border_intersections, state : {"called"},
                  cm : {None}, i : {None}]
    /\ leds_0 = <<>>
    /\ leds_1 = <<>>
    /\ timer = FALSE
    /\ mainpc = "frame"
    /\ mi = 0
    /\ mode = NoMode
    /\ ap = NoApply
    /\ cbpc = "none"
    /\ cbap = NoApply
    /\ scene = NoScene
    /\ hist = NoHist
    /\ changed = None
    /\ ops = 0
    /\ jul = NoJul

\* one call of intersect_angle_frame, from the kernel's report to the return
FrameReturn ==
    /\ frame.state = "called"
    /\ frame' = [frame EXCEPT
                   !.state = "returned",
                   !.cm = IF frame.result = None THEN None
                          ELSE Some(unwind(Val(frame.result).side, Val(frame.result).x,
                                           Val(frame.result).y)),
                   !.i = intersect_angle_frame(frame.result)]
    /\ UNCHANGED <<leds_0, leds_1, timer, mainpc, mi, mode, ap, cbpc, cbap,
                   scene, hist, changed, ops, jul>>

NextFrame == FrameReturn

SpecFrame == InitFrame /\ [][NextFrame]_vars

\* C5: intersect_angle_frame returns None or an index in 0..n-1, whatever
\* side and in-bounds point the geometry kernel reports.
C5_IndexInRing ==
    frame.state = "returned"
        => (frame.i = None \/ (Len(frame.i) = 1 /\ Val(frame.i) \in 0..(n - 1)))

\* the south-east corner unwinds to 0 cm, which gives -1 before the clamp
C5_Witness ==
    /\ frame.state = "returned" /\ frame.result # None
    /\ Val(frame.result).side = "south" /\ Val(frame.result).x = w2
    /\ frame.cm = Some(0) /\ frame.i = Some(0)

SouthMidpoint ==
    /\ frame.state = "returned" /\ frame.result # None
    /\ Val(frame.result).side = "south"
    /\ Val(frame.result).x = 0 /\ Val(frame.result).y = -h2

\* C6 as stated: at the south midpoint cm = width/2 and the index is the
\* south-centre index cardinals['south'][0].
C6_SouthCentreAsClaimed ==
    SouthMidpoint => /\ frame.cm = Some(width \div 2)
                     /\ frame.i = Some(cardinals.south[1])

\* C6 amended: at the south midpoint cm = width/2 (44.75 cm) and the index is
\* one below the south-centre index (26, not 27), because of the -1 of line 183.
C6_SouthCentreMinusOne ==
    SouthMidpoint => /\ frame.cm = Some(44750)
                     /\ frame.i = Some(cardinals.south[1] - 1)
                     /\ frame.i = Some(26)

C6_Witness == SouthMidpoint /\ frame.cm = Some(width \div 2) /\ frame.i # None

(***************************************************************************)
(* The Julian day on its own: the wall clock walks through the calendar    *)
(* one day at a time and calc_solar_position computes jd for the date.     *)
(***************************************************************************)
JulianFirstYear == 1999
JulianLastYear == 2030

IsLeap(y) == (y % 4 = 0 /\ y % 100 # 0) \/ y % 400 = 0

DaysInMonth(y, m) ==
    IF m = 2 THEN (IF IsLeap(y) THEN 29 ELSE 28)
    ELSE IF m \in {4, 6, 9, 11} THEN 30 ELSE 31

DayAfter(date) ==
    LET y == date[1]
        m == date[2]
        d == date[3]
    IN  IF d < DaysInMonth(y, m) THEN <<y, m, d + 1>>
        ELSE IF m < 12 THEN <<y, m + 1, 1>>
        ELSE <<y + 1, 1, 1>>

DayBefore(date) ==
    LET y == date[1]
        m == date[2]
        d == date[3]
    IN  IF d > 1 THEN <<y, m, d - 1>>
        ELSE IF m > 1 THEN <<y, m - 1, DaysInMonth(y, m - 1)>>
        ELSE <<y - 1, 12, 31>>

InitJulian ==
    /\ jul = [date |-> <<2000, 1, 1>>, dayNo |-> 0, jd |-> None]
    /\ leds_0 = <<>>
    /\ leds_1 = <<>>
    /\ timer = FALSE
    /\ mainpc = "julian"
    /\ mi = 0
    /\ mode = NoMode
    /\ ap = NoApply
    /\ cbpc = "none"
    /\ cbap = NoApply
    /\ scene = NoScene
    /\ hist = NoHist
    /\ changed = None
    /\ ops = 0
    /\ frame = NoFrame

JulianOthers == <<leds_0, leds_1, timer, mainpc, mi, mode, ap, cbpc, cbap,
                  scene, hist, changed, ops, frame>>

\* midnight passes: the date of utime.localtime() is the next day
NextDay ==
    /\ DayAfter(jul.date)[1] <= JulianLastYear
    /\ jul' = [date |-> DayAfter(jul.date), dayNo |-> jul.dayNo + 1, jd |-> None]
    /\ UNCHANGED JulianOthers

\* the clock is set back by a day
PrevDay ==
    /\ DayBefore(jul.date)[1] >= JulianFirstYear
    /\ jul' = [date |-> DayBefore(jul.date), dayNo |-> jul.dayNo - 1, jd |-> None]
    /\ UNCHANGED JulianOthers

\* lines 108-111 of calc_solar_position
CalcJulianDay ==
    /\ jul.jd = None
    /\ jul' = [jul EXCEPT !.jd = Some(JulianDay(jul.date[1], jul.date[2], jul.date[3]))]
    /\ UNCHANGED JulianOthers

NextJulian == NextDay \/ PrevDay \/ CalcJulianDay

SpecJulian == InitJulian /\ [][NextJulian]_vars

\* C9: for every date of 1999..2030 the computed jd is the Julian Day Number:
\* jd - 2451545 is the number of days since 2000-01-01 (0 on that day, one
\* more on each following day, across month and year boundaries).
C9_JulianDayNumber ==
    jul.jd # None => Val(jul.jd) - J2000 = jul.dayNo

====
